---- MODULE Spec2Model ----
(***************************************************************************)
(* The todo REST API of lib/todo-app-stack.ts: an API Gateway whose five   *)
(* methods are mapped by request templates onto DynamoDB operations on the *)
(* table "todos", and whose integration responses map the store's outcome  *)
(* back to an HTTP status and body.                                        *)
(*                                                                         *)
(* Texts are sequences of characters.  A request template pastes the       *)
(* caller's text between the quotes of a JSON string, and the store parses *)
(* the document that results: what is stored is what that parse yields,    *)
(* not what was submitted.  The document is therefore rendered character   *)
(* by character and parsed by the JSON grammar.                            *)
(* The response templates paste the stored texts the same way, so a        *)
(* response of items is rendered as text too, and a claim about what a     *)
(* caller receives reads that text by the same grammar.                    *)
(*                                                                         *)
(* A request carries a Content-Type.  The templates and the model are      *)
(* keyed on application/json; a body of another type is turned down on the *)
(* collection routes (passthroughBehavior NEVER) and handed to the store   *)
(* as it is on the item routes, which set no passthroughBehavior.          *)
(*                                                                         *)
(* Reads (GetItem, Scan) ask for no ConsistentRead, so they are eventually *)
(* consistent: a read sees the table, or the table as it was before one   *)
(* of the latest writes.                                                   *)
(***************************************************************************)
EXTENDS Integers, Sequences, FiniteSets, TLC

VARIABLES
    store,      \* the items of table "todos": records [id, title, description]
    replica,    \* the earlier tables a lagging read may still see, latest first
    scanDesc,   \* the table's internal item order, fixed when it is created
    req,        \* req[r]: the request being served on connection r
    hist        \* history: the latest successful mutation per submitted id

vars == <<store, replica, scanDesc, req, hist>>

-----------------------------------------------------------------------------
(* Bounds of the model *)

\* the longest run of backslashes in a submitted id
MaxRun == 4
\* the number of distinct plain ids used to fill the table beyond one page
MaxPlain == 11
\* the number of connections with a request in flight at the same time
MaxConns == 3
\* the number of writes an eventually consistent read may lag behind
MaxLag == 1
\* the number of connections whose requests are followed to their end
MaxLive == 2

-----------------------------------------------------------------------------
(* Text and JSON values of a request body *)

BS == "\\"
QT == "\""
NL == "\n"

Run(c, n) == [i \in 1..n |-> c]

\* a JSON value of a request body: a string, a non-string, or a missing property
Str(s) == [t |-> "string", s |-> s]
Num == [t |-> "number", s |-> <<"1">>]
Absent == [t |-> "absent", s |-> <<>>]

\* $input.path('$.x') / $input.params('x') pasted into a template: the value's
\* text as it is, nothing escaped; a missing property renders as the empty text
Interpolate(v) == v.s

-----------------------------------------------------------------------------
(* The JSON grammar, as the store's parser reads a rendered document *)

\* the character at position i of a text; "" past its end
At(d, i) == IF i \in 1..Len(d) THEN d[i] ELSE ""

Whitespace == {" ", "\t", NL, "\r"}

Digit == {"0", "1", "2", "3", "4", "5", "6", "7", "8", "9"}

HexDigit == Digit \cup {"a", "b", "c", "d", "e", "f", "A", "B", "C", "D", "E", "F"}

DigitValue(c) ==
    CASE c = "0" -> 0 [] c = "1" -> 1 [] c = "2" -> 2 [] c = "3" -> 3
      [] c = "4" -> 4 [] c = "5" -> 5 [] c = "6" -> 6 [] c = "7" -> 7
      [] c = "8" -> 8 [] c = "9" -> 9
      [] c \in {"a", "A"} -> 10 [] c \in {"b", "B"} -> 11
      [] c \in {"c", "C"} -> 12 [] c \in {"d", "D"} -> 13
      [] c \in {"e", "E"} -> 14 [] c \in {"f", "F"} -> 15

\* the characters U+0000 .. U+007F; one without a printable form is named
\* by its code
Ascii ==
    <<"U+0", "U+1", "U+2", "U+3", "U+4", "U+5", "U+6", "U+7", "U+8", "\t",
      NL, "U+11", "\f", "\r", "U+14", "U+15", "U+16", "U+17", "U+18", "U+19",
      "U+20", "U+21", "U+22", "U+23", "U+24", "U+25", "U+26", "U+27", "U+28",
      "U+29", "U+30", "U+31", " ", "!", QT, "#", "$", "%", "&", "'", "(",
      ")", "*", "+", ",", "-", ".", "/", "0", "1", "2", "3", "4", "5", "6",
      "7", "8", "9", ":", ";", "<", "=", ">", "?", "@", "A", "B", "C", "D",
      "E", "F", "G", "H", "I", "J", "K", "L", "M", "N", "O", "P", "Q", "R",
      "S", "T", "U", "V", "W", "X", "Y", "Z", "[", BS, "]", "^", "_", "U+96",
      "a", "b", "c", "d", "e", "f", "g", "h", "i", "j", "k", "l", "m", "n",
      "o", "p", "q", "r", "s", "t", "u", "v", "w", "x", "y", "z", "{", "|",
      "}", "~", "U+127">>

\* U+0000 .. U+001F may not stand unescaped inside a string
Control == {Ascii[n] : n \in 1..32}

\* \uXXXX: the character with that code
CodeUnit(h1, h2, h3, h4) ==
    LET n == 4096 * DigitValue(h1) + 256 * DigitValue(h2)
                + 16 * DigitValue(h3) + DigitValue(h4)
    IN  IF n < 128 THEN Ascii[n + 1] ELSE "U+" \o ToString(n)

\* the two-character escapes: \" \\ \/ \b \f \n \r \t
Escaped(c) ==
    CASE c = QT -> QT [] c = BS -> BS [] c = "/" -> "/" [] c = "b" -> Ascii[9]
      [] c = "f" -> "\f" [] c = "n" -> NL [] c = "r" -> "\r" [] c = "t" -> "\t"

\* parsed JSON values
JStr(s) == [k |-> "string", v |-> s]
JNum(s) == [k |-> "number", v |-> s]
JLit(s) == [k |-> "literal", v |-> s]
JArr(a) == [k |-> "array", v |-> a]
JObj(m) == [k |-> "object", v |-> m]

\* the result of reading one value: whether it is well formed, the position
\* after it, and the value
Parsed(ok, pos, val) == [ok |-> ok, pos |-> pos, val |-> val]

Malformed == Parsed(FALSE, 0, JLit(<<>>))

\* the element of a set of one: {e : x \in {v}} is e with x standing for the
\* value of v, worked out once
The(S) == CHOOSE x \in S : TRUE

RECURSIVE SkipWs(_, _)
SkipWs(d, i) == IF At(d, i) \in Whitespace THEN SkipWs(d, i + 1) ELSE i

RECURSIVE DigitsEnd(_, _)
DigitsEnd(d, i) == IF At(d, i) \in Digit THEN DigitsEnd(d, i + 1) ELSE i

\* a string, read from the character after its opening quote: a double quote
\* ends it, a backslash takes the next character (or u and four hex digits)
\* with it, and the end of the text or a control character breaks it
RECURSIVE JsonString(_, _, _)
JsonString(d, i, acc) ==
    LET c == At(d, i)
        e == At(d, i + 1)
    IN  IF c = QT THEN Parsed(TRUE, i + 1, JStr(acc))
        ELSE IF c = "" \/ c \in Control THEN Malformed
        ELSE IF c # BS THEN JsonString(d, i + 1, Append(acc, c))
        ELSE IF e \in {QT, BS, "/", "b", "f", "n", "r", "t"}
             THEN JsonString(d, i + 2, Append(acc, Escaped(e)))
        ELSE IF e = "u" /\ \A n \in 2..5 : At(d, i + n) \in HexDigit
             THEN JsonString(d, i + 6,
                             Append(acc, CodeUnit(d[i + 2], d[i + 3], d[i + 4], d[i + 5])))
        ELSE Malformed

\* a number: -? (0 | 1-9 digits) (. digits)? ((e|E) (+|-)? digits)?
JsonNumber(d, i) ==
    LET a == IF At(d, i) = "-" THEN i + 1 ELSE i
        b == IF At(d, a) = "0" THEN a + 1 ELSE DigitsEnd(d, a)
        c == IF At(d, b) = "." THEN DigitsEnd(d, b + 1) ELSE b
        s == IF At(d, c) \in {"e", "E"}
             THEN (IF At(d, c + 1) \in {"+", "-"} THEN c + 2 ELSE c + 1)
             ELSE c
        f == IF s = c THEN c ELSE DigitsEnd(d, s)
    IN  IF b = a \/ (c # b /\ c = b + 1) \/ (s # c /\ f = s)
        THEN Malformed
        ELSE Parsed(TRUE, f, JNum(SubSeq(d, i, f - 1)))

\* true, false, null
JsonLiteral(d, i) ==
    LET word == CASE At(d, i) = "t" -> <<"t", "r", "u", "e">>
                  [] At(d, i) = "f" -> <<"f", "a", "l", "s", "e">>
                  [] OTHER          -> <<"n", "u", "l", "l">>
    IN  IF \A n \in 1..Len(word) : At(d, i + n - 1) = word[n]
        THEN Parsed(TRUE, i + Len(word), JLit(word))
        ELSE Malformed

\* an object keeps one value per name: a name that comes again replaces it
WithMember(m, name, val) ==
    [x \in DOMAIN m \cup {name} |-> IF x = name THEN val ELSE m[x]]

RECURSIVE JsonValue(_, _)
RECURSIVE JsonMembers(_, _, _)
RECURSIVE JsonElements(_, _, _)

\* the members of an object, read from the first character of a name
JsonMembers(d, i, m) ==
    IF At(d, i) # QT THEN Malformed
    ELSE The({
        IF ~name.ok \/ At(d, SkipWs(d, name.pos)) # ":" THEN Malformed
        ELSE The({
            IF ~val.ok THEN Malformed
            ELSE The({
                CASE At(d, next) = "," -> JsonMembers(d, SkipWs(d, next + 1), all)
                  [] At(d, next) = "}" -> Parsed(TRUE, next + 1, JObj(all))
                  [] OTHER -> Malformed
                : next \in {SkipWs(d, val.pos)},
                  all \in {WithMember(m, name.val.v, val.val)} })
            : val \in {JsonValue(d, SkipWs(d, SkipWs(d, name.pos) + 1))} })
        : name \in {JsonString(d, i + 1, <<>>)} })

\* the elements of an array, read from the first character of an element
JsonElements(d, i, a) ==
    The({
        IF ~val.ok THEN Malformed
        ELSE The({
            CASE At(d, next) = "," -> JsonElements(d, SkipWs(d, next + 1), all)
              [] At(d, next) = "]" -> Parsed(TRUE, next + 1, JArr(all))
              [] OTHER -> Malformed
            : next \in {SkipWs(d, val.pos)}, all \in {Append(a, val.val)} })
        : val \in {JsonValue(d, i)} })

JsonValue(d, i) ==
    The({
        CASE c = QT  -> JsonString(d, at + 1, <<>>)
          [] c = "{" -> IF At(d, SkipWs(d, at + 1)) = "}"
                        THEN Parsed(TRUE, SkipWs(d, at + 1) + 1, JObj(<<>>))
                        ELSE JsonMembers(d, SkipWs(d, at + 1), <<>>)
          [] c = "[" -> IF At(d, SkipWs(d, at + 1)) = "]"
                        THEN Parsed(TRUE, SkipWs(d, at + 1) + 1, JArr(<<>>))
                        ELSE JsonElements(d, SkipWs(d, at + 1), <<>>)
          [] c \in Digit \cup {"-"}  -> JsonNumber(d, at)
          [] c \in {"t", "f", "n"}   -> JsonLiteral(d, at)
          [] OTHER -> Malformed
        : at \in {i}, c \in {At(d, i)} })

\* a whole document: one value, with nothing but white space around it
JsonDocument(d) ==
    The({ IF val.ok /\ SkipWs(d, val.pos) = Len(d) + 1 THEN val ELSE Malformed
          : val \in {JsonValue(d, SkipWs(d, 1))} })

-----------------------------------------------------------------------------
(* Request validation: todoModel + requestBodyValidator *)

JSON == "application/json"

\* a schema whose "required" list misses description
TodoRequired_NoDescription == {"id", "title"}

TodoRequired == {"id", "title", "description"}

\* the JSON schema of model "Todo": the three properties are required and of
\* type string (no minLength)
todoModel(body) ==
    \A f \in TodoRequired : body[f].t = "string"

\* which methods carry requestValidator + requestModels
HasBodyValidator(op) == op \in {"Create", "Update"}

\* the model is keyed on application/json: a body of another type has no
\* model and is not validated
requestBodyValidator(op, ctype, body) ==
    (HasBodyValidator(op) /\ ctype = JSON) => todoModel(body)

\* passthroughBehavior: NEVER on the two collection methods, unset (a body of
\* a type without template is passed through) on the three item methods
PassthroughNever(op) == op \in {"Scan", "Create"}

-----------------------------------------------------------------------------
(* Request templates: the document each method renders for the store *)

\* todos
TableName ==
    <<"t", "o", "d", "o", "s">>

\* {
\*   "TableName": "todos",
Open ==
    <<"{", NL, QT, "T", "a", "b", "l", "e", "N", "a", "m", "e", QT, ":", " ",
      QT, "t", "o", "d", "o", "s", QT, ",", NL>>

\* "Item": { "id": { "S": "
ItemId ==
    <<QT, "I", "t", "e", "m", QT, ":", " ", "{", NL, QT, "i", "d", QT, ":",
      " ", "{", NL, QT, "S", QT, ":", " ", QT>>

\* "Key": { "id": { "S": "
KeyId ==
    <<QT, "K", "e", "y", QT, ":", " ", "{", NL, QT, "i", "d", QT, ":", " ",
      "{", NL, QT, "S", QT, ":", " ", QT>>

\* " }, "title": { "S": "
ThenTitle ==
    <<QT, NL, "}", ",", NL, QT, "t", "i", "t", "l", "e", QT, ":", " ", "{",
      NL, QT, "S", QT, ":", " ", QT>>

\* " }, "description": { "S": "
ThenDescription ==
    <<QT, NL, "}", ",", NL, QT, "d", "e", "s", "c", "r", "i", "p", "t", "i",
      "o", "n", QT, ":", " ", "{", NL, QT, "S", QT, ":", " ", QT>>

\* " } }, "ConditionExpression": "
ThenCondition ==
    <<QT, NL, "}", NL, "}", ",", NL, QT, "C", "o", "n", "d", "i", "t", "i",
      "o", "n", "E", "x", "p", "r", "e", "s", "s", "i", "o", "n", QT, ":",
      " ", QT>>

\* " }
Close ==
    <<QT, NL, "}">>

\* " } } }
CloseKey ==
    <<QT, NL, "}", NL, "}", NL, "}">>

AttributeExists ==
    <<"a", "t", "t", "r", "i", "b", "u", "t", "e", "_", "e", "x", "i", "s",
      "t", "s", "(", "i", "d", ")">>

AttributeNotExists ==
    <<"a", "t", "t", "r", "i", "b", "u", "t", "e", "_", "n", "o", "t", "_",
      "e", "x", "i", "s", "t", "s", "(", "i", "d", ")">>

\* { "TableName": "todos", "Limit": 10 }
getAllTodosRequest ==
    Open \o
    <<QT, "L", "i", "m", "i", "t", QT, ":", " ", "1", "0", NL, "}">>

createTodoRequest(body) ==
    Open \o ItemId \o Interpolate(body.id)
         \o ThenTitle \o Interpolate(body.title)
         \o ThenDescription \o Interpolate(body.description)
         \o ThenCondition \o AttributeNotExists \o Close

getSingleTodoRequest(todoId) ==
    Open \o KeyId \o Interpolate(Str(todoId)) \o CloseKey

updateSingleTodoRequest(todoId, body) ==
    Open \o ItemId \o Interpolate(Str(todoId))
         \o ThenTitle \o Interpolate(body.title)
         \o ThenDescription \o Interpolate(body.description)
         \o ThenCondition \o AttributeExists \o Close

deleteSingleTodoRequest(todoId) ==
    Open \o KeyId \o Interpolate(Str(todoId))
         \o ThenCondition \o AttributeExists \o Close

RequestTemplate(op, todoId, body) ==
    CASE op = "Scan"   -> getAllTodosRequest
      [] op = "Create" -> createTodoRequest(body)
      [] op = "Get"    -> getSingleTodoRequest(todoId)
      [] op = "Update" -> updateSingleTodoRequest(todoId, body)
      [] op = "Delete" -> deleteSingleTodoRequest(todoId)

\* the 'action' of each integration
Action(op) ==
    CASE op = "Scan"   -> "Scan"
      [] op = "Create" -> "PutItem"
      [] op = "Get"    -> "GetItem"
      [] op = "Update" -> "PutItem"
      [] op = "Delete" -> "DeleteItem"

\* What reaches the store: the rendered template for application/json, the
\* caller's body as it is for another type on a method that passes through
IntegrationRequest(op, ctype, todoId, body, raw) ==
    IF ctype = JSON THEN RequestTemplate(op, todoId, body) ELSE raw

-----------------------------------------------------------------------------
(* The store's reading of a request document *)

NameTableName ==
    <<"T", "a", "b", "l", "e", "N", "a", "m", "e">>
NameItem == <<"I", "t", "e", "m">>
NameKey == <<"K", "e", "y">>
NameLimit == <<"L", "i", "m", "i", "t">>
NameCondition ==
    <<"C", "o", "n", "d", "i", "t", "i", "o", "n", "E", "x", "p", "r", "e",
      "s", "s", "i", "o", "n">>
NameId == <<"i", "d">>
NameTitle == <<"t", "i", "t", "l", "e">>
NameDescription ==
    <<"d", "e", "s", "c", "r", "i", "p", "t", "i", "o", "n">>
NameS == <<"S">>

\* the store request as the store understands it.  ok: the store accepts the
\* document, else code is its error.  loose: the document holds something
\* this model does not interpret (a member the operation does not know, an
\* attribute of another type than S, another condition), which the store may
\* refuse.  limit 0 and cond "" stand for none.
NoPayload ==
    [action |-> "", ok |-> TRUE, code |-> "", loose |-> FALSE, key |-> <<>>,
     title |-> <<>>, description |-> <<>>, cond |-> "", limit |-> 0]

Refused(action, code) ==
    [NoPayload EXCEPT !.action = action, !.ok = FALSE, !.code = code]

\* an attribute value of type S: { "S": "text" }
IsS(val) ==
    /\ val.k = "object"
    /\ DOMAIN val.v = {NameS}
    /\ val.v[NameS].k = "string"

\* "$x.S" of a member of an item: its text if it is of type S, else nothing
TextOfS(m, name) ==
    IF name \in DOMAIN m /\ IsS(m[name]) THEN m[name].v[NameS].v ELSE <<>>

RECURSIVE Decimal(_)
Decimal(s) == IF s = <<>> THEN 0 ELSE 10 * Decimal(SubSeq(s, 1, Len(s) - 1))
                                        + DigitValue(s[Len(s)])

\* the members an operation knows, of those the templates use
KnownMembers(action) ==
    {NameTableName} \cup
        CASE action = "Scan"       -> {NameLimit}
          [] action = "GetItem"    -> {NameKey}
          [] action = "PutItem"    -> {NameItem, NameCondition}
          [] action = "DeleteItem" -> {NameKey, NameCondition}

DynamoRequest(action, text) ==
    The({
    LET top  == doc.val.v
        attr == IF action = "PutItem" THEN NameItem ELSE NameKey
        map  == top[attr].v
        hasCond  == NameCondition \in DOMAIN top
        goodCond == /\ top[NameCondition].k = "string"
                    /\ top[NameCondition].v \in {AttributeExists, AttributeNotExists}
        hasLimit  == NameLimit \in DOMAIN top
        goodLimit == /\ top[NameLimit].k = "number"
                     /\ \A n \in 1..Len(top[NameLimit].v) : top[NameLimit].v[n] \in Digit
                     /\ Decimal(top[NameLimit].v) >= 1
    IN  IF ~doc.ok \/ doc.val.k # "object" THEN
            Refused(action, "SerializationException")
        ELSE IF NameTableName \notin DOMAIN top \/ top[NameTableName].k # "string" THEN
            Refused(action, "ValidationException")
        ELSE IF top[NameTableName].v # TableName THEN
            Refused(action, "ResourceNotFoundException")
        ELSE IF action = "Scan" THEN
            [NoPayload EXCEPT
                !.action = action,
                !.loose = (DOMAIN top \ KnownMembers(action) # {})
                            \/ (hasLimit /\ ~goodLimit),
                !.limit = IF hasLimit /\ goodLimit THEN Decimal(top[NameLimit].v) ELSE 0]
        ELSE IF attr \notin DOMAIN top \/ top[attr].k # "object" THEN
            Refused(action, "ValidationException")
        ELSE IF NameId \notin DOMAIN map \/ ~IsS(map[NameId])
                    \/ TextOfS(map, NameId) = <<>> THEN
            Refused(action, "ValidationException")
        ELSE IF action # "PutItem" /\ DOMAIN map # {NameId} THEN
            Refused(action, "ValidationException")
        ELSE
            [NoPayload EXCEPT
                !.action = action,
                !.loose = \/ DOMAIN top \ KnownMembers(action) # {}
                          \/ \E a \in DOMAIN map : ~IsS(map[a])
                          \/ (hasCond /\ ~goodCond),
                !.key = TextOfS(map, NameId),
                !.title = TextOfS(map, NameTitle),
                !.description = TextOfS(map, NameDescription),
                !.cond = IF ~hasCond \/ ~goodCond THEN ""
                         ELSE IF top[NameCondition].v = AttributeExists
                              THEN "attribute_exists(id)"
                              ELSE "attribute_not_exists(id)"]
    : doc \in {JsonDocument(text)} })

-----------------------------------------------------------------------------
(* The table "todos": partition key id, one item per key *)

Items(st, key) == {i \in st : i.id = key}

Outcome(status, code, fault, items) ==
    [status |-> status, code |-> code, fault |-> fault, items |-> items]

NoOutcome == Outcome(0, "", "", <<>>)

\* ConditionExpression of a write, evaluated on the item the key addresses
ConditionHolds(st, key, cond) ==
    CASE cond = "attribute_not_exists(id)" -> Items(st, key) = {}
      [] cond = "attribute_exists(id)"     -> Items(st, key) # {}
      [] OTHER                             -> TRUE

\* The order a Scan walks the table in: fixed by the table, unrelated to the
\* order of insertion.  Two such orders are modelled, by a rank of the key.
CharCode(c) == CASE c = "a" -> 1 [] c = "1" -> 2 [] c = BS -> 3 [] OTHER -> 4

RECURSIVE KeyRank(_)
KeyRank(k) == IF k = <<>> THEN 0 ELSE CharCode(Head(k)) + 5 * KeyRank(Tail(k))

RECURSIVE ScanOrder(_, _)
ScanOrder(st, desc) ==
    IF st = {} THEN <<>>
    ELSE The({ <<first>> \o ScanOrder(st \ {first}, desc)
               : first \in {CHOOSE x \in st : \A y \in st :
                                IF desc THEN KeyRank(y.id) <= KeyRank(x.id)
                                        ELSE KeyRank(x.id) <= KeyRank(y.id)} })

\* Scan with "Limit": at most that many items, from the start of the table
Scan(st, desc, limit) ==
    The({ SubSeq(all, 1, IF limit = 0 \/ Len(all) < limit THEN Len(all) ELSE limit)
          : all \in {ScanOrder(st, desc)} })

PutItem(st, p) ==
    (st \ Items(st, p.key))
        \cup {[id |-> p.key, title |-> p.title, description |-> p.description]}

DeleteItem(st, p) == st \ Items(st, p.key)

\* One store operation, applied atomically: the table afterwards and the
\* outcome returned.  A fault of the store itself (throttling: 4xx, internal
\* error: 5xx) leaves the table alone, and so does the refusal of a document
\* (no JSON, no table, no key: 4xx).  A write and its condition act on the
\* table st; a read, asking for no ConsistentRead, answers from the table it
\* is shown, seen, which may lag behind.
DynamoDB(st, seen, desc, p, fault) ==
    IF fault = "throttled" THEN
        [store |-> st, outcome |-> Outcome(400, "ThrottlingException", fault, <<>>)]
    ELSE IF fault = "internal" THEN
        [store |-> st, outcome |-> Outcome(500, "InternalServerError", fault, <<>>)]
    ELSE IF fault = "refused" THEN
        [store |-> st, outcome |-> Outcome(400, "ValidationException", fault, <<>>)]
    ELSE IF ~p.ok THEN
        [store |-> st, outcome |-> Outcome(400, p.code, fault, <<>>)]
    ELSE IF p.action = "Scan" THEN
        [store |-> st, outcome |-> Outcome(200, "OK", fault, Scan(seen, desc, p.limit))]
    ELSE IF p.action = "GetItem" THEN
        [store |-> st,
         outcome |-> Outcome(200, "OK", fault, ScanOrder(Items(seen, p.key), FALSE))]
    ELSE IF ~ConditionHolds(st, p.key, p.cond) THEN
        [store |-> st,
         outcome |-> Outcome(400, "ConditionalCheckFailedException", fault, <<>>)]
    ELSE IF p.action = "PutItem" THEN
        [store |-> PutItem(st, p), outcome |-> Outcome(200, "OK", fault, <<>>)]
    ELSE
        [store |-> DeleteItem(st, p), outcome |-> Outcome(200, "OK", fault, <<>>)]

-----------------------------------------------------------------------------
(* Integration responses: status classification and response templates *)

\* integration responses whose 4xx pattern matches nothing
SelectionPattern_No4xx(status) ==
    IF status \in 200..299 THEN "200" ELSE "none"

\* selectionPattern '2\d{2}' / '4\d{2}' on the store's status; "none" when no
\* integration response matches
SelectionPattern(status) ==
    IF status \in 200..299 THEN "200"
    ELSE IF status \in 400..499 THEN "400"
    ELSE "none"

\* a response body: a fixed object of one member (key, text), or the document
\* a template renders around stored texts (doc)
Body(kind, key, text, doc) ==
    [kind |-> kind, key |-> key, text |-> text, doc |-> doc]

NoBody == Body("none", "", "", <<>>)

\* { "id": "
TodoId ==
    <<"{", " ", QT, "i", "d", QT, ":", " ", QT>>

\* ", "title": "
TodoTitle ==
    <<QT, ",", " ", QT, "t", "i", "t", "l", "e", QT, ":", " ", QT>>

\* ", "description": "
TodoDescription ==
    <<QT, ",", " ", QT, "d", "e", "s", "c", "r", "i", "p", "t", "i", "o",
      "n", QT, ":", " ", QT>>

\* " }
TodoClose ==
    <<QT, " ", "}">>

\* { "id": "$todo.id.S", "title": "$todo.title.S",
\*   "description": "$todo.description.S" }
\* the stored texts pasted between the quotes as they are, nothing escaped;
\* the white space between the tokens of a template is written as one space
RenderTodo(item) ==
    TodoId \o item.id \o TodoTitle \o item.title
           \o TodoDescription \o item.description \o TodoClose

LoadError == "There was an error loading the To-Do objects."

Response(status, body) == [status |-> status, body |-> body]

\* #foreach($todo in $inputRoot.Items) { .. }#if($foreach.hasNext),#end #end
\* from the n-th item on
RECURSIVE Foreach(_, _)
Foreach(items, n) ==
    IF n > Len(items) THEN <<>>
    ELSE RenderTodo(items[n])
            \o (IF n < Len(items) THEN <<",", " ">> ELSE <<>>)
            \o Foreach(items, n + 1)

\* [ #foreach .. #end ]
getAllTodosResponse(selected, outcome) ==
    IF selected = "200"
    THEN Response(200, Body("list", "", "",
                            <<"[", " ">> \o Foreach(outcome.items, 1) \o <<" ", "]">>))
    ELSE Response(400, Body("object", "error", LoadError, <<>>))

createTodoResponse(selected, outcome) ==
    IF selected = "200"
    THEN Response(200, Body("object", "message", "To-Do object created successfully.", <<>>))
    ELSE Response(400, Body("object", "message",
                            "There was an error while creating a new To-Do object.", <<>>))

\* #if($todo == ""): an absent Item overrides the status to 400
getSingleTodoResponse(selected, outcome) ==
    IF selected = "200"
    THEN IF outcome.items = <<>>
         THEN Response(400, Body("object", "error", LoadError, <<>>))
         ELSE Response(200, Body("todo", "", "", RenderTodo(outcome.items[1])))
    ELSE Response(400, Body("object", "error", LoadError, <<>>))

updateSingleTodoResponse(selected, outcome) ==
    IF selected = "200"
    THEN Response(200, Body("object", "message", "To-Do object updated successfully.", <<>>))
    ELSE Response(400, Body("object", "error",
                            "There was an error while updating the To-Do object.", <<>>))

deleteSingleTodoResponse(selected, outcome) ==
    IF selected = "200"
    THEN Response(200, Body("object", "message", "To-Do object deleted successfully.", <<>>))
    ELSE Response(400, Body("object", "error",
                            "There has been an error while deleting the To-Do object.", <<>>))

\* the gateway's own answers: a body the validator refuses, and a store status
\* that no integration response selects
InvalidBodyResponse ==
    Response(400, Body("object", "message", "Invalid request body", <<>>))

\* a body of a type without template, on a method that never passes through
UnsupportedMediaTypeResponse ==
    Response(415, Body("object", "message", "Unsupported Media Type", <<>>))

UnmatchedResponse ==
    Response(500, Body("object", "message", "Internal server error", <<>>))

\* What the deployed stage records of a request: the RestApi is created with
\* no deployOptions, so execution and access logging are off and no request,
\* whatever its outcome, leaves a record.
StageLogging == FALSE

Recorded(q) == StageLogging /\ q.phase \in {"Responded", "Rejected"}

ResponseTemplate(op, selected, outcome) ==
    CASE selected = "none" -> UnmatchedResponse
      [] op = "Scan"   -> getAllTodosResponse(selected, outcome)
      [] op = "Create" -> createTodoResponse(selected, outcome)
      [] op = "Get"    -> getSingleTodoResponse(selected, outcome)
      [] op = "Update" -> updateSingleTodoResponse(selected, outcome)
      [] op = "Delete" -> deleteSingleTodoResponse(selected, outcome)

-----------------------------------------------------------------------------
(* Requests *)

EmptyBody == [id |-> Absent, title |-> Absent, description |-> Absent]

\* history of a request's store operation: whether an item with the submitted
\* id was in the table before / after it, the keys whose item it changed,
\* (for a read) the history entry of the submitted id at that moment, the
\* operation's place in the order the store applied the operations in flight,
\* and whether the answer is the one the table itself gives
NoEffect ==
    [existed |-> FALSE, exists |-> FALSE, wrote |-> {}, expect |-> {}, seq |-> 0,
     fresh |-> TRUE]

\* the store request a method sends: the integration's action and the text
\* its template rendered
NoRequest == [action |-> "", text |-> <<>>]

IdleReq ==
    [phase |-> "Idle", op |-> "", ctype |-> "", path |-> <<>>, body |-> EmptyBody,
     raw |-> <<>>, sent |-> NoRequest, payload |-> NoPayload, calls |-> 0,
     outcome |-> NoOutcome,
     selected |-> "", status |-> 0, resp |-> NoBody, eff |-> NoEffect]

Terminal == {"Responded", "Rejected"}

\* the id a request is submitted for: body.id on create, the path id otherwise
SubmittedId(q) == IF q.op = "Create" THEN Interpolate(q.body.id) ELSE q.path

\* the inputs a specification draws requests from: ids are the empty text, a
\* plain id and runs of backslashes (an odd run is no valid JSON text)
Ids == {<<>>, <<"a">>} \cup {Run(BS, n) : n \in 1..MaxRun}

\* a title that closes its own string and attribute and opens another "id":
\* a"}, "id": {"S": "a
TitleWithId ==
    <<"a", QT, "}", ",", " ", QT, "i", "d", QT, ":", " ", "{", QT, "S", QT,
      ":", " ", QT, "a">>

\* store requests a caller writes itself: a key and an item, no condition
\* {"TableName": "todos", "Key": {"id": {"S": "a"}}}
KeyDocument ==
    <<"{", QT, "T", "a", "b", "l", "e", "N", "a", "m", "e", QT, ":", " ", QT,
      "t", "o", "d", "o", "s", QT, ",", " ", QT, "K", "e", "y", QT, ":", " ",
      "{", QT, "i", "d", QT, ":", " ", "{", QT, "S", QT, ":", " ", QT, "a",
      QT, "}", "}", "}">>

\* {"TableName": "todos", "Item": {"id": {"S": "a"}}}
ItemDocument ==
    <<"{", QT, "T", "a", "b", "l", "e", "N", "a", "m", "e", QT, ":", " ", QT,
      "t", "o", "d", "o", "s", QT, ",", " ", QT, "I", "t", "e", "m", QT, ":",
      " ", "{", QT, "i", "d", QT, ":", " ", "{", QT, "S", QT, ":", " ", QT,
      "a", QT, "}", "}", "}">>

MainInputs ==
    [conns  |-> {1},
     ops    |-> {"Scan", "Create", "Get", "Update", "Delete"},
     ctypes |-> {JSON, "text/plain"},
     paths  |-> Ids \ {<<>>},
     ids    |-> {Str(s) : s \in Ids} \cup {Absent},
     updIds |-> {Str(<<BS, BS>>), Absent},
     titles |-> {Str(<<"a">>), Str(<<>>), Str(TitleWithId), Absent},
     descs  |-> {Str(<<"a">>), Num, Absent},
     raws   |-> {KeyDocument, ItemDocument},
     faults |-> {"none", "throttled", "internal"},
     table  |-> {},
     lag    |-> 0,
     watch  |-> {},
     once   |-> FALSE]

\* A table that already holds items, and reads that lag behind the writes: a
\* Scan needs more items than its "Limit" to be cut short, and an item that
\* was deleted or replaced to list it as it was
PlainIds == {Run("a", n) : n \in 1..MaxPlain}

Plain(s) == [id |-> s, title |-> <<"a">>, description |-> <<"a">>]

Stocked == {Plain(Run("a", n)) : n \in 1..(MaxPlain - 2)}

\* a title that, once stored, closes its own object in a response and opens
\* another: in the body each double quote is escaped, the store keeps
\* a" }, { "id": "b", "title": "a
TitleWithTodo ==
    <<"a", BS, QT, " ", "}", ",", " ", "{", " ", BS, QT, "i", "d", BS, QT,
      ":", " ", BS, QT, "b", BS, QT, ",", " ", BS, QT, "t", "i", "t", "l",
      "e", BS, QT, ":", " ", BS, QT, "a">>

ScanInputs ==
    [conns  |-> {1},
     ops    |-> {"Scan", "Create", "Get", "Update", "Delete"},
     ctypes |-> {JSON},
     paths  |-> {<<"a">>},
     ids    |-> {Str(Run("a", n)) : n \in (MaxPlain - 2)..MaxPlain},
     updIds |-> {Str(<<"a">>)},
     titles |-> {Str(<<"a">>), Str(<<"1">>), Str(<<BS, QT>>), Str(TitleWithTodo)},
     descs  |-> {Str(<<"a">>)},
     raws   |-> {<<>>},
     faults |-> {"none"},
     table  |-> Stocked,
     lag    |-> MaxLag,
     watch  |-> {},
     once   |-> FALSE]

\* Reads that follow writes, with reads that lag behind: the ids are a plain
\* one and a backslash run, the titles differ so that a replacement shows
ReadInputs ==
    [conns  |-> {1},
     ops    |-> {"Create", "Get", "Update", "Delete"},
     ctypes |-> {JSON},
     paths  |-> {<<"a">>, Run(BS, 2)},
     ids    |-> {Str(<<"a">>), Str(Run(BS, 2))},
     updIds |-> {Str(<<"a">>)},
     titles |-> {Str(<<"a">>), Str(<<"1">>)},
     descs  |-> {Str(<<"a">>)},
     raws   |-> {<<>>},
     faults |-> {"none"},
     table  |-> {},
     lag    |-> MaxLag,
     watch  |-> {<<"a">>, Run(BS, 2)},
     once   |-> FALSE]

\* Concurrent clients: each of MaxConns connections carries one request, and
\* the requests interleave step by step.  The ids are backslash runs that the
\* store parses to two different keys.
ConcInputs ==
    [conns  |-> 1..MaxConns,
     ops    |-> {"Create", "Update", "Delete"},
     ctypes |-> {JSON},
     paths  |-> {Run(BS, 2)},
     ids    |-> {Str(Run(BS, 2)), Str(Run(BS, 4))},
     updIds |-> {Str(Run(BS, 2))},
     titles |-> {Str(<<"a">>), Str(Run(BS, 2))},
     descs  |-> {Str(<<"a">>), Absent},
     raws   |-> {<<>>},
     faults |-> {"none"},
     table  |-> {},
     lag    |-> 0,
     watch  |-> {},
     once   |-> TRUE]

\* Concurrent clients on every route, bodies of either type, and a store that
\* may fail: the inputs under which each request is followed to its end.
LiveInputs ==
    [conns  |-> 1..MaxLive,
     ops    |-> {"Scan", "Create", "Get", "Update", "Delete"},
     ctypes |-> {JSON, "text/plain"},
     paths  |-> {Run(BS, 2)},
     ids    |-> {Str(Run(BS, 2))},
     updIds |-> {Absent},
     titles |-> {Str(<<"a">>)},
     descs  |-> {Str(<<"a">>), Absent},
     raws   |-> {KeyDocument},
     faults |-> {"none", "internal"},
     table  |-> {},
     lag    |-> 0,
     watch  |-> {},
     once   |-> TRUE]

\* the bodies a request of a method is drawn from; only PUT carries one, and
\* only a body of type application/json is read as a Todo.  The bodies are
\* the Todos of the pools with at most one property missing or of another
\* type than string.
Flaws(b) == {f \in DOMAIN b : b[f].t # "string"}

BodiesOf(op, ctype, in) ==
    CASE ctype = JSON /\ op = "Create" ->
            {b \in [id : in.ids, title : in.titles, description : in.descs] :
                Cardinality(Flaws(b)) <= 1}
      [] ctype = JSON /\ op = "Update" ->
            {b \in [id : in.updIds, title : in.titles, description : in.descs] :
                Cardinality(Flaws(b)) <= 1}
      [] OTHER -> {EmptyBody}

\* the body texts of another type: they matter where they are passed through
RawsOf(op, ctype, in) ==
    IF ctype = JSON \/ PassthroughNever(op) THEN {<<>>} ELSE in.raws

\* the create a stocked item came from
CreatedAs(i) ==
    [id |-> i.id, key |-> i.id, op |-> "Create",
     title |-> Str(i.title), description |-> Str(i.description)]

InitOf(in) ==
    /\ store = in.table
    /\ replica = <<>>
    /\ scanDesc \in BOOLEAN
    /\ req = [r \in in.conns |-> IdleReq]
    /\ hist = {CreatedAs(i) : i \in {x \in in.table : x.id \in in.watch}}

\* A request arrives.  The collection routes (GET, PUT /v1/todo) have no path
\* id; the item routes need a non-empty one.  Only PUT carries a body.  A
\* connection is reused for the next request once the last one has ended,
\* unless the inputs give each connection one request only.
Receive(r, in) ==
    /\ req[r].phase \in (IF in.once THEN {} ELSE Terminal) \cup {"Idle"}
    /\ \E op \in in.ops :
       \E ctype \in in.ctypes :
       \E p \in (IF op \in {"Scan", "Create"} THEN {<<>>} ELSE in.paths) :
       \E b \in BodiesOf(op, ctype, in) :
       \E raw \in RawsOf(op, ctype, in) :
          req' = [req EXCEPT ![r] =
                    [IdleReq EXCEPT !.phase = "Received", !.op = op,
                                    !.ctype = ctype, !.path = p, !.body = b,
                                    !.raw = raw]]
    /\ UNCHANGED <<store, replica, scanDesc, hist>>

\* The request validator, then the integration's choice of a template: a
\* body the model refuses ends the request here, and so does a body of a type
\* without template on a method that never passes through
Validate(r) ==
    /\ req[r].phase = "Received"
    /\ IF ~requestBodyValidator(req[r].op, req[r].ctype, req[r].body)
       THEN req' = [req EXCEPT ![r].phase = "Rejected",
                               ![r].status = InvalidBodyResponse.status,
                               ![r].resp = InvalidBodyResponse.body]
       ELSE IF req[r].ctype # JSON /\ PassthroughNever(req[r].op)
       THEN req' = [req EXCEPT ![r].phase = "Rejected",
                               ![r].status = UnsupportedMediaTypeResponse.status,
                               ![r].resp = UnsupportedMediaTypeResponse.body]
       ELSE req' = [req EXCEPT ![r].phase = "Validated"]
    /\ UNCHANGED <<store, replica, scanDesc, hist>>

\* a method without its request validator: the body is rendered unchecked
Dispatch_Unvalidated(r) ==
    /\ req[r].phase \in {"Received", "Validated"}
    /\ req' = [req EXCEPT
                ![r].phase = "Dispatched",
                ![r].sent = [action |-> Action(req[r].op),
                             text |-> IntegrationRequest(req[r].op, req[r].ctype,
                                          req[r].path, req[r].body, req[r].raw)],
                ![r].calls = @ + 1]
    /\ UNCHANGED <<store, replica, scanDesc, hist>>

\* The integration request is rendered and sent to the store: one store
\* operation per integration, counted in calls
Dispatch(r) ==
    /\ req[r].phase = "Validated"
    /\ req' = [req EXCEPT
                ![r].phase = "Dispatched",
                ![r].sent = [action |-> Action(req[r].op),
                             text |-> IntegrationRequest(req[r].op, req[r].ctype,
                                          req[r].path, req[r].body, req[r].raw)],
                ![r].calls = @ + 1]
    /\ UNCHANGED <<store, replica, scanDesc, hist>>

\* the history after a store operation; the ids of watch are followed
HistAfter(h, q, watch) ==
    IF q.outcome.status = 200 /\ q.payload.action \in {"PutItem", "DeleteItem"}
    THEN {e \in h : /\ e.id # SubmittedId(q)
                    /\ e.id # q.payload.key
                    /\ e.key # q.payload.key}
         \cup (IF q.payload.action = "PutItem" /\ SubmittedId(q) \in watch
               THEN {[id |-> SubmittedId(q), key |-> q.payload.key, op |-> q.op,
                      title |-> q.body.title, description |-> q.body.description]}
               ELSE {})
    ELSE h

\* The store's reply to a request.  A fault of the store itself (throttled,
\* internal) comes before the document is read.  Otherwise the store reads
\* the document and applies the operation atomically; a read is shown the
\* table or one of the earlier tables a lagging copy still holds: the tables
\* before the last in.lag writes.
Take(s, n) == SubSeq(s, 1, IF Len(s) < n THEN Len(s) ELSE n)

Reply(r, in, p, fault) ==
    \E seen \in {store} \cup {replica[n] : n \in 1..Len(replica)} :
    \E res \in {DynamoDB(store, seen, scanDesc, p, fault)} :
        LET now == DynamoDB(store, store, scanDesc, p, fault)
            sid == SubmittedId(req[r])
            eff == [existed |-> Items(store, sid) # {},
                    exists  |-> Items(res.store, sid) # {},
                    wrote   |-> {i.id : i \in (store \ res.store) \cup (res.store \ store)},
                    expect  |-> {e \in hist : e.id = sid},
                    seq     |-> Cardinality({x \in DOMAIN req :
                                                req[x].outcome # NoOutcome}) + 1,
                    fresh   |-> res = now]
            q   == [req[r] EXCEPT !.payload = p, !.outcome = res.outcome, !.eff = eff]
        IN  /\ store' = res.store
            /\ req' = [req EXCEPT ![r] = q]
            /\ replica' = IF res.store = store THEN replica
                           ELSE Take(<<store>> \o replica, in.lag)
            /\ hist' = HistAfter(hist, q, in.watch)
            /\ UNCHANGED scanDesc

\* The store replies: with a fault of its own, or, having read the document,
\* with the result of the operation or the refusal of a document that holds
\* what the model does not interpret
StoreReply(r, in) ==
    /\ req[r].phase = "Dispatched"
    /\ req[r].outcome = NoOutcome
    /\ \/ \E fault \in in.faults \ {"none"} : Reply(r, in, NoPayload, fault)
       \/ \E p \in {DynamoRequest(req[r].sent.action, req[r].sent.text)} :
          \E fault \in (in.faults \cap {"none"})
                            \cup (IF p.ok /\ p.loose THEN {"refused"} ELSE {}) :
              Reply(r, in, p, fault)

\* an integration that sends the store request again after a failure
Classify_Retry(r) ==
    /\ req[r].phase = "Dispatched"
    /\ req[r].outcome # NoOutcome
    /\ IF SelectionPattern(req[r].outcome.status) = "200"
       THEN req' = [req EXCEPT ![r].phase = "Classified", ![r].selected = "200"]
       ELSE req' = [req EXCEPT ![r].phase = "Validated", ![r].outcome = NoOutcome]
    /\ UNCHANGED <<store, replica, scanDesc, hist>>

\* The store's status selects an integration response
Classify(r) ==
    /\ req[r].phase = "Dispatched"
    /\ req[r].outcome # NoOutcome
    /\ req' = [req EXCEPT ![r].phase = "Classified",
                          ![r].selected = SelectionPattern(req[r].outcome.status)]
    /\ UNCHANGED <<store, replica, scanDesc, hist>>

\* The response template is rendered and the HTTP response sent
Respond(r) ==
    /\ req[r].phase = "Classified"
    /\ LET rsp == ResponseTemplate(req[r].op, req[r].selected, req[r].outcome)
       IN  req' = [req EXCEPT ![r].phase = "Responded",
                              ![r].status = rsp.status,
                              ![r].resp = rsp.body]
    /\ UNCHANGED <<store, replica, scanDesc, hist>>

NextOf(in) ==
    \E r \in in.conns :
        \/ Receive(r, in)
        \/ Validate(r)
        \/ Dispatch(r)
        \/ StoreReply(r, in)
        \/ Classify(r)
        \/ Respond(r)

Init == InitOf(MainInputs)
Next == NextOf(MainInputs)
Spec == Init /\ [][Next]_vars

InitConc == InitOf(ConcInputs)
NextConc == NextOf(ConcInputs)
SpecConc == InitConc /\ [][NextConc]_vars

\* the gateway and the store keep serving: a request that can take its next
\* step (validation, dispatch, the store's reply, classification, response)
\* eventually takes it
Serve(r) ==
    \/ Validate(r)
    \/ Dispatch(r)
    \/ StoreReply(r, LiveInputs)
    \/ Classify(r)
    \/ Respond(r)

InitLive == InitOf(LiveInputs)
NextLive == NextOf(LiveInputs)
SpecLive ==
    /\ InitLive
    /\ [][NextLive]_vars
    /\ \A r \in LiveInputs.conns : WF_vars(Serve(r))

InitRead == InitOf(ReadInputs)
NextRead == NextOf(ReadInputs)
SpecRead == InitRead /\ [][NextRead]_vars

InitScan == InitOf(ScanInputs)
NextScan == NextOf(ScanInputs)
SpecScan == InitScan /\ [][NextScan]_vars

-----------------------------------------------------------------------------
(* Properties *)

Conns == DOMAIN req

\* the application/json request on r has been answered, and the store itself
\* did not fail
Answered(r, op) ==
    /\ req[r].op = op
    /\ req[r].ctype = JSON
    /\ req[r].phase = "Responded"
    /\ req[r].outcome.fault = "none"

\* the read of r was answered from the table as it is, not from a copy of it
\* that lags behind
Fresh(r) == req[r].eff.fresh

\* the answer of a method when the store's status is a 4xx
ErrorOf(op) == ResponseTemplate(op, "400", NoOutcome)

HasStatusAndBody(r, rsp) ==
    req[r].status = rsp.status /\ req[r].resp = rsp.body

\* a Todo as a client reads it from a response: an object of the three
\* members, each a string
JsonTodo(todo) ==
    JObj([x \in {NameId, NameTitle, NameDescription} |->
            JStr(CASE x = NameId    -> todo.id
                   [] x = NameTitle -> todo.title
                   [] OTHER         -> todo.description)])

\* r was answered HTTP 200 with a body that a client reads as exactly this Todo
ReturnsTodo(r, todo) ==
    /\ req[r].status = 200
    /\ \E doc \in {JsonDocument(req[r].resp.doc)} :
           doc.ok /\ doc.val = JsonTodo(todo)

\* r was answered HTTP 200 with a body that a client reads as exactly this
\* list of Todos
ReturnsTodos(r, todos) ==
    /\ req[r].status = 200
    /\ \E doc \in {JsonDocument(req[r].resp.doc)} :
           /\ doc.ok
           /\ doc.val = JArr([n \in 1..Len(todos) |-> JsonTodo(todos[n])])

\* a text that reads the same inside a JSON string: no double quote, no
\* backslash, no control character
PlainText(s) == \A n \in 1..Len(s) : s[n] \notin {QT, BS} \cup Control

PlainItem(i) == PlainText(i.id) /\ PlainText(i.title) /\ PlainText(i.description)

\* C1: a create request whose body.id is the id of an item in the table when
\* the store operation is applied returns HTTP 400 with the create error body,
\* and that item is left as it was.
C1_CreateExistingIdFails ==
    \A r \in Conns :
        (Answered(r, "Create") /\ req[r].eff.existed) =>
            /\ HasStatusAndBody(r, ErrorOf("Create"))
            /\ SubmittedId(req[r]) \notin req[r].eff.wrote

\* C1, on the key the rendered store request addresses: a create that
\* returns 200 wrote exactly that key, and only because no item had it.
C1_OnAddressedKey ==
    \A r \in Conns :
        (Answered(r, "Create") /\ req[r].status = 200) =>
            /\ req[r].eff.wrote = {req[r].payload.key}
            /\ req[r].outcome.code = "OK"

\* C2: an update request whose path id is the id of no item in the table when
\* the store operation is applied returns HTTP 400 with the update error body,
\* and no item with that id exists afterwards as a result of it.
C2_UpdateMissingIdFails ==
    \A r \in Conns :
        (Answered(r, "Update") /\ ~req[r].eff.existed) =>
            /\ HasStatusAndBody(r, ErrorOf("Update"))
            /\ ~req[r].eff.exists

\* C3: a delete request for an id that is not in the table returns HTTP 400
\* with the delete error body, never HTTP 200.
C3_DeleteMissingIdFails ==
    \A r \in Conns :
        (Answered(r, "Delete") /\ ~req[r].eff.existed) =>
            HasStatusAndBody(r, ErrorOf("Delete"))

\* C4: round trip.  When the latest successful mutation of an id is a create
\* of the Todo {id, title, description}, three non-empty strings, then
\* GET /v1/todo/{id}, read from the table as it is, returns HTTP 200 with a
\* body of exactly these three values.
C4_RoundTrip ==
    \A r \in Conns :
        (Answered(r, "Get") /\ Fresh(r)) =>
            \A e \in req[r].eff.expect :
                (/\ e.op = "Create"
                 /\ e.id # <<>>
                 /\ Interpolate(e.title) # <<>>
                 /\ Interpolate(e.description) # <<>>) =>
                    ReturnsTodo(r, [id |-> e.id, title |-> Interpolate(e.title),
                                    description |-> Interpolate(e.description)])

\* C5: GET /v1/todo/{id} for an id that is not in the table, read from the
\* table as it is, returns HTTP 400 with the body
\* {"error": "There was an error loading the To-Do objects."}, never HTTP 200.
C5_GetMissingIdIs400 ==
    \A r \in Conns :
        (Answered(r, "Get") /\ Fresh(r) /\ ~req[r].eff.existed) =>
            HasStatusAndBody(r, Response(400, Body("object", "error", LoadError, <<>>)))

LacksField(body) == \E f \in {"id", "title", "description"} : body[f] = Absent

\* C6: validation precedence.  A create request whose JSON body lacks id,
\* title or description is rejected with HTTP 400 before any store operation
\* is issued: it goes from Received to Rejected, no store request is rendered,
\* no store outcome exists for it and it changed no item.
C6_ValidationPrecedence ==
    \A r \in Conns :
        (/\ req[r].op = "Create"
         /\ req[r].ctype = JSON
         /\ LacksField(req[r].body)
         /\ req[r].phase # "Received") =>
            /\ req[r].phase = "Rejected"
            /\ req[r].status = 400
            /\ req[r].sent = NoRequest
            /\ req[r].outcome = NoOutcome
            /\ req[r].eff = NoEffect

C6_Witness ==
    \E r \in Conns :
        /\ req[r].op = "Create"
        /\ req[r].ctype = JSON
        /\ req[r].body.id = Str(<<"a">>)
        /\ req[r].body.title = Str(<<"a">>)
        /\ req[r].body.description = Absent
        /\ req[r].phase = "Rejected"
        /\ req[r].status = 400

\* C7: an update request whose body has string title and description but no
\* id passes validation and is dispatched to the store.
C7_UpdateNeedsNoBodyId ==
    \A r \in Conns :
        (/\ req[r].op = "Update"
         /\ req[r].body.id = Absent
         /\ req[r].body.title.t = "string"
         /\ req[r].body.description.t = "string") =>
            req[r].phase # "Rejected"

HasEmptyField(q) ==
    \/ q.body.title = Str(<<>>)
    \/ q.body.description = Str(<<>>)
    \/ (q.op = "Create" /\ q.body.id = Str(<<>>))

\* C8: a create or update request with an empty string for title or
\* description (or id, on create) is rejected before reaching the store, and
\* no item with an empty title, description or id is ever written.
C8_EmptyStringsRejected ==
    /\ \A r \in Conns :
        (req[r].op \in {"Create", "Update"} /\ HasEmptyField(req[r])) =>
            req[r].phase \in {"Received", "Rejected"}
    /\ \A i \in store : i.id # <<>> /\ i.title # <<>> /\ i.description # <<>>

\* C9: for an update request with path id p and a body id b different from p,
\* the only key written is p and no item with key b is created, modified or
\* removed.
C9_UpdateWritesPathIdOnly ==
    \A r \in Conns :
        (/\ req[r].op = "Update"
         /\ req[r].outcome # NoOutcome
         /\ req[r].body.id.t = "string"
         /\ req[r].body.id.s # req[r].path) =>
            /\ req[r].eff.wrote \subseteq {req[r].path}
            /\ req[r].body.id.s \notin req[r].eff.wrote

\* C9, on what the body id can do: the store request of an update is the
\* same whatever the body's id, and the update writes no key but that of the
\* store request.
C9_BodyIdNeverAddressed ==
    \A r \in Conns :
        (req[r].op = "Update" /\ req[r].ctype = JSON /\ req[r].outcome # NoOutcome) =>
            /\ req[r].eff.wrote \subseteq {req[r].payload.key}
            /\ req[r].sent.text =
                  updateSingleTodoRequest(req[r].path,
                                          [req[r].body EXCEPT !.id = Absent])

\* the tables a read may be answered from: the table and the earlier tables an
\* eventually consistent read may still see
Readable == {store} \cup {replica[n] : n \in 1..Len(replica)}

\* C10: scan bound.  Whatever the number of items in the table, GET /v1/todo
\* returns HTTP 200 with a JSON array of at most 10 items, each of them an
\* item that is in the table, and the request leaves the table unchanged.
C10_ScanBound ==
    \A r \in Conns :
        Answered(r, "Scan") =>
            /\ req[r].status = 200
            /\ \E doc \in {JsonDocument(req[r].resp.doc)} :
                   /\ doc.ok
                   /\ doc.val.k = "array"
                   /\ Len(doc.val.v) <= 10
                   /\ \A n \in 1..Len(doc.val.v) :
                          doc.val.v[n] \in {JsonTodo(i) : i \in store}
            /\ req[r].eff.wrote = {}

\* C10, the part the store decides: a Scan returns at most 10 items, all of
\* one table the read may see, and writes nothing.
C10_StoreReturnsAtMostTen ==
    \A r \in Conns :
        Answered(r, "Scan") =>
            /\ req[r].status = 200
            /\ Len(req[r].outcome.items) <= 10
            /\ \E seen \in Readable :
                   \A n \in 1..Len(req[r].outcome.items) :
                       req[r].outcome.items[n] \in seen
            /\ req[r].eff.wrote = {}

\* the store reported a failure that is no conditional-check failure
StoreFailed(r) ==
    /\ req[r].phase = "Responded"
    /\ req[r].outcome.status \notin 200..299
    /\ req[r].outcome.code # "ConditionalCheckFailedException"

\* C11 as claimed: every store-reported failure other than a conditional-check
\* failure (throttling, internal fault), on any of the five operations, is
\* answered with HTTP 400 and the operation's error body.
C11_EveryStoreFailureIs400 ==
    \A r \in Conns :
        StoreFailed(r) => HasStatusAndBody(r, ErrorOf(req[r].op))

\* C11 as amended: every store-reported failure with a 4xx status other than a
\* conditional-check failure (throttling, a refused payload or key), on any of
\* the five operations, is answered with HTTP 400 and the operation's error
\* body; a failure with a 5xx status (internal fault) matches no integration
\* response and is answered with HTTP 500, not 400.
C11_Store4xxIs400 ==
    \A r \in Conns :
        StoreFailed(r) =>
            /\ req[r].outcome.status \in 400..499 =>
                   HasStatusAndBody(r, ErrorOf(req[r].op))
            /\ req[r].outcome.status \notin 400..499 =>
                   HasStatusAndBody(r, UnmatchedResponse)

C11_Witness ==
    \E r \in Conns :
        /\ StoreFailed(r)
        /\ req[r].op = "Delete"
        /\ req[r].outcome.code = "ThrottlingException"
        /\ req[r].status = 400
        /\ req[r].resp = ErrorOf("Delete").body

\* C12: a store outcome whose status matches neither the 2xx nor the 4xx
\* pattern never ends in HTTP 200 or a success message, and it is recorded as
\* an unexpected error instead of being dropped.
C12_UnmatchedIsRecorded ==
    \A r \in Conns :
        (req[r].phase = "Responded" /\ req[r].selected = "none") =>
            /\ req[r].status # 200
            /\ req[r].resp # ResponseTemplate(req[r].op, "200", req[r].outcome).body
            /\ Recorded(req[r])

\* C12, the part the code decides: an unmatched store status never ends in
\* HTTP 200; the gateway answers 500.
C12_UnmatchedIsNever200 ==
    \A r \in Conns :
        (req[r].phase = "Responded" /\ req[r].selected = "none") =>
            HasStatusAndBody(r, UnmatchedResponse)


\* the store operation of x was applied before that of y
Before(x, y) ==
    /\ req[x].outcome # NoOutcome
    /\ req[y].outcome # NoOutcome
    /\ req[x].eff.seq < req[y].eff.seq

\* the store reported success for the operation of r
Succeeded(r) == req[r].outcome.status = 200

\* C13: of two concurrent create requests for the same id, with no update or
\* delete succeeding meanwhile, at most one returns HTTP 200; when one does,
\* the other returns 400 and the item stored at the key it wrote carries the
\* title and the description it submitted.
C13_ConcurrentCreates ==
    \A a, b \in Conns :
        (/\ a # b
         /\ req[a].op = "Create" /\ req[a].phase = "Responded"
         /\ req[b].op = "Create" /\ req[b].phase = "Responded"
         /\ SubmittedId(req[a]) = SubmittedId(req[b])
         /\ \A x \in Conns : req[x].op \in {"Update", "Delete"} => ~Succeeded(x)) =>
            /\ ~(req[a].status = 200 /\ req[b].status = 200)
            /\ req[a].status = 200 =>
                /\ req[b].status = 400
                /\ Items(store, req[a].payload.key) # {}
                /\ \A i \in Items(store, req[a].payload.key) :
                    /\ i.title = Interpolate(req[a].body.title)
                    /\ i.description = Interpolate(req[a].body.description)

\* C13, on the store's atomic check alone: two creates that render the same
\* key both succeed only around a delete of that key that succeeded in between.
C13_AtMostOneWins ==
    \A a, b \in Conns :
        (/\ req[a].op = "Create" /\ req[b].op = "Create"
         /\ req[a].payload.key = req[b].payload.key
         /\ Succeeded(a) /\ Succeeded(b)
         /\ Before(a, b)) =>
            \E d \in Conns :
                /\ req[d].op = "Delete"
                /\ req[d].payload.key = req[a].payload.key
                /\ Succeeded(d)
                /\ Before(a, d) /\ Before(d, b)

\* C14: a request issues at most one store operation over its lifetime: none
\* before it is dispatched and none when it is rejected, exactly one once it
\* has passed validation and been dispatched, whatever the outcome; a create
\* or update issues a single PutItem and a delete a single DeleteItem, no read.
C14_OneStoreOperation ==
    \A r \in Conns :
        /\ req[r].calls <= 1
        /\ req[r].phase \in {"Idle", "Received", "Validated", "Rejected"} =>
            /\ req[r].calls = 0
            /\ req[r].sent = NoRequest
            /\ req[r].outcome = NoOutcome
        /\ req[r].phase \in {"Dispatched", "Classified", "Responded"} =>
            /\ req[r].calls = 1
            /\ req[r].op \in {"Create", "Update"} => req[r].sent.action = "PutItem"
            /\ req[r].op = "Delete" => req[r].sent.action = "DeleteItem"

C14_Witness ==
    \E r \in Conns :
        /\ req[r].op = "Create"
        /\ req[r].phase = "Responded"
        /\ req[r].outcome.code = "ConditionalCheckFailedException"
        /\ req[r].status = 400
        /\ req[r].calls = 1

\* no store operation of another request was applied between those of x and y
Adjacent(x, y) ==
    \A z \in Conns \ {x, y} :
        req[z].outcome # NoOutcome => (Before(z, x) /\ Before(z, y))

\* C15: a concurrent update and delete of the same id, of which an item exists
\* when the first of the two is applied.  Delete first: the update returns 400
\* and no item with the id exists after it.  Update first: both return 200 and
\* no item with the id exists after the delete.  And whenever an item with the
\* id of a delete that returned 200 exists, a create for that id succeeded
\* after the delete.
C15_UpdateDeleteRace ==
    /\ \A u, d \in Conns :
        (/\ req[u].op = "Update" /\ req[u].phase = "Responded"
         /\ req[d].op = "Delete" /\ req[d].phase = "Responded"
         /\ SubmittedId(req[u]) = SubmittedId(req[d])
         /\ Adjacent(u, d)) =>
            /\ (Before(d, u) /\ req[d].eff.existed) =>
                /\ req[u].status = 400
                /\ ~req[u].eff.exists
            /\ (Before(u, d) /\ req[u].eff.existed) =>
                /\ req[u].status = 200
                /\ req[d].status = 200
                /\ ~req[d].eff.exists
    /\ \A d \in Conns :
        (/\ req[d].op = "Delete" /\ req[d].phase = "Responded"
         /\ req[d].status = 200
         /\ Items(store, SubmittedId(req[d])) # {}) =>
            \E c \in Conns :
                /\ req[c].op = "Create"
                /\ SubmittedId(req[c]) = SubmittedId(req[d])
                /\ Succeeded(c)
                /\ Before(d, c)

\* C15, on the key both requests render: delete first, the update fails and
\* the key stays empty; update first, both succeed and the key is empty.
C15_OnAddressedKey ==
    \A u, d \in Conns :
        (/\ req[u].op = "Update" /\ req[u].phase = "Responded"
         /\ req[d].op = "Delete" /\ req[d].phase = "Responded"
         /\ req[u].payload.key = req[d].payload.key
         /\ req[u].payload.ok
         /\ Adjacent(u, d)) =>
            /\ (Before(d, u) /\ Succeeded(d)) =>
                /\ req[u].status = 400
                /\ req[u].eff.wrote = {}
            /\ (Before(u, d) /\ Succeeded(u)) =>
                /\ req[d].status = 200
                /\ req[d].eff.wrote = {req[d].payload.key}

\* C16: update is a full replace.  When the latest successful mutation of an
\* id is an update with path id p and a non-empty title and description, then
\* GET /v1/todo/{p}, read from the table as it is, returns HTTP 200 with a
\* body of exactly p, that title and that description.
C16_UpdateIsFullReplace ==
    \A r \in Conns :
        (Answered(r, "Get") /\ Fresh(r)) =>
            \A e \in req[r].eff.expect :
                (/\ e.op = "Update"
                 /\ Interpolate(e.title) # <<>>
                 /\ Interpolate(e.description) # <<>>) =>
                    ReturnsTodo(r, [id |-> e.id, title |-> Interpolate(e.title),
                                    description |-> Interpolate(e.description)])

\* C16, on the stored item: a GET that finds an item of plain texts returns
\* its three stored texts and nothing else.
C16_GetRendersStoredItem ==
    \A r \in Conns :
        (/\ Answered(r, "Get")
         /\ Len(req[r].outcome.items) = 1
         /\ PlainItem(req[r].outcome.items[1])) =>
            ReturnsTodo(r, req[r].outcome.items[1])

\* the steps of a request's lifecycle
Lifecycle ==
    {<<"Idle", "Received">>, <<"Received", "Validated">>, <<"Received", "Rejected">>,
     <<"Validated", "Dispatched">>, <<"Dispatched", "Classified">>,
     <<"Classified", "Responded">>}

InFlight == {"Received", "Validated", "Dispatched", "Classified"}

\* C17: every request follows Received, Validated, Dispatched, Classified,
\* Responded, or goes from Received to Rejected: a change of phase is one of
\* these steps (so none is Dispatched that was not Validated), a request that
\* is Responded or Rejected never changes again, and, the gateway and the
\* store being fair to it, every request that was received ends as Responded
\* or Rejected.
C17_Lifecycle ==
    /\ [][\A r \in Conns :
            /\ req'[r].phase # req[r].phase =>
                   <<req[r].phase, req'[r].phase>> \in Lifecycle
            /\ req[r].phase \in Terminal => req'[r] = req[r]]_vars
    /\ \A r \in LiveInputs.conns :
            (req[r].phase \in InFlight) ~> (req[r].phase \in Terminal)

C17_Witness ==
    \E a, b \in Conns :
        /\ req[a].phase = "Responded" /\ req[a].op = "Delete"
        /\ req[b].phase = "Rejected"

\* C18: the scan response lists one {id, title, description} object per item
\* the store returned, in the order the store returned them: none dropped,
\* none added, none reordered.
C18_ScanKeepsOrder ==
    \A r \in Conns :
        (Answered(r, "Scan") /\ req[r].status = 200) =>
            ReturnsTodos(r, req[r].outcome.items)

\* C18, on plain texts: when no text of a returned item holds a double quote,
\* a backslash or a control character, the response lists the returned items
\* one by one in the store's order.
C18_OnPlainTexts ==
    \A r \in Conns :
        (/\ Answered(r, "Scan")
         /\ req[r].status = 200
         /\ \A n \in 1..Len(req[r].outcome.items) :
                PlainItem(req[r].outcome.items[n])) =>
            ReturnsTodos(r, req[r].outcome.items)

\* every id a request was submitted for or an item is stored under
KnownIds == {SubmittedId(req[r]) : r \in Conns} \cup {i.id : i \in store}

SucceededFor(op, id) ==
    {r \in Conns : req[r].op = op /\ SubmittedId(req[r]) = id /\ Succeeded(r)}

\* C19: for every id, the creates for it that succeeded are as many as the
\* deletes for it that succeeded, or one more, and one more exactly when an
\* item with that id is in the table.
C19_CreatesMinusDeletes ==
    \A id \in KnownIds :
        LET n == Cardinality(SucceededFor("Create", id))
                    - Cardinality(SucceededFor("Delete", id))
        IN  /\ n \in {0, 1}
            /\ n = 1 <=> Items(store, id) # {}

\* C19, on the key the requests render: the writes that succeeded at a key
\* account for the item under it.
C19_OnAddressedKey ==
    \A k \in {i.id : i \in store} \cup {req[r].payload.key : r \in Conns} :
        LET won(op) == {r \in Conns : /\ req[r].op = op
                                      /\ req[r].payload.key = k
                                      /\ Succeeded(r)}
            n == Cardinality(won("Create")) - Cardinality(won("Delete"))
        IN  /\ n \in {0, 1}
            /\ n = 1 <=> Items(store, k) # {}

\* the items of a table under every key but one
Elsewhere(st, key) == {i \in st : i.id # key}

\* C20: the table changes only in the step that applies a create, update or
\* delete the store reports success for, and then only under the id the
\* request was submitted for; a request that ended with HTTP 400 or was
\* rejected, and every GET, changed no item, and a request that changed one
\* returns 200.
C20_Frame ==
    /\ [][store' # store =>
            \E r \in Conns :
                /\ req[r].op \in {"Create", "Update", "Delete"}
                /\ req[r].phase = "Dispatched"
                /\ req[r].outcome = NoOutcome
                /\ req'[r].outcome.status = 200
                /\ Elsewhere(store', SubmittedId(req[r]))
                       = Elsewhere(store, SubmittedId(req[r]))]_vars
    /\ [](\A r \in Conns :
            /\ (req[r].phase = "Rejected" \/ req[r].status = 400
                    \/ req[r].op \in {"Scan", "Get"}) => req[r].eff.wrote = {}
            /\ (req[r].eff.wrote # {} /\ req[r].phase = "Responded") =>
                   /\ req[r].status = 200
                   /\ req[r].eff.wrote = {SubmittedId(req[r])})

\* C20, on the key of the store request: the table changes only in the step
\* that applies a PutItem or DeleteItem the store reports success for, and
\* only under the key of that store request; requests that ended with 400 or
\* were rejected, and every GET, changed no item.
C20_OnStoreRequestKey ==
    /\ [][store' # store =>
            \E r \in Conns :
                /\ req[r].op \in {"Create", "Update", "Delete"}
                /\ req[r].phase = "Dispatched"
                /\ req[r].outcome = NoOutcome
                /\ req'[r].outcome.status = 200
                /\ Elsewhere(store', req'[r].payload.key)
                       = Elsewhere(store, req'[r].payload.key)]_vars
    /\ [](\A r \in Conns :
            /\ (req[r].phase = "Rejected" \/ req[r].status = 400
                    \/ req[r].op \in {"Scan", "Get"}) => req[r].eff.wrote = {}
            /\ (req[r].eff.wrote # {} /\ req[r].phase = "Responded") =>
                   /\ req[r].status = 200
                   /\ req[r].eff.wrote = {req[r].payload.key})

\* C20, where a body of another type is passed through: no request whose own
\* document the store applied wrote under another key than its path id.
C20_PathIdOfPassedThrough ==
    \A r \in Conns :
        (req[r].ctype # JSON /\ req[r].outcome.status = 200) =>
            req[r].eff.wrote \subseteq {req[r].path}

====
